---- MODULE Spec2Model ----
(***************************************************************************)
(* PyGravitySimulator: the packaged physics engine                         *)
(* (src/gravity_simulator/physics.py) driven through its public            *)
(* operations, and the controller that sets its parameters                 *)
(* (src/gravity_simulator/controller.py, utils.py).                        *)
(*                                                                         *)
(* Numbers.  The engine computes in IEEE doubles.  Here every quantity is  *)
(* an integer count of a fixed unit, and every operation whose result need *)
(* not be representable (a division, a square root, a cube root, a product *)
(* of two scaled quantities) rounds to the nearest representable value,    *)
(* ties away from zero, as a float operation rounds to the nearest double. *)
(* Additions and subtractions are exact.  A division by zero raises, like  *)
(* Python's float division.                                                *)
(*   positions, velocities, radii : 1 unit                                 *)
(*   masses                       : 1 unit                                 *)
(*   G                            : 1/GScale                               *)
(*   dt                           : 1/DtScale                              *)
(*   softening, regularised r     : 1/RScale                               *)
(*   forces, accelerations        : 1/FScale                               *)
(*   the number in the G box      : 1/GTextScale  (round(G, 1))            *)
(*   the number in the dt box     : 1/DtTextScale (round(dt, 3))           *)
(***************************************************************************)
EXTENDS Integers, Sequences, FiniteSets, TLC

VARIABLES
    particles,   \* PhysicsEngine.particles: the ordered body collection
    G,           \* PhysicsEngine.G, in 1/GScale
    dt,          \* PhysicsEngine.dt, in 1/DtScale
    raised,      \* an operation raised ZeroDivisionError (uncaught: the process is gone)
    steps,       \* number of engine calls made, add_particle calls apart
    nextId,      \* identity of the next Object created
    forceUsed,   \* per body, the net force update() applied to it in the last call
    lastCall,    \* the operation called last, its arguments, the merges it made
    before,      \* the collection as it was when the last call began
    is_paused,   \* SimulationController.is_paused
    original_dt, \* SimulationController.original_dt, in 1/DtScale
    g_text,      \* SimulationController.g_input.text
    dt_text,     \* SimulationController.dt_input.text
    earlier      \* the controller calls made, newest first, each with the
                 \* parameters it started from (the last two are kept)

vars == <<particles, G, dt, raised, steps, nextId, forceUsed, lastCall, before,
          is_paused, original_dt, g_text, dt_text, earlier>>

\* what belongs to the controller
controller == <<is_paused, original_dt, g_text, dt_text, earlier>>

----------------------------------------------------------------------------
(* Resolution of the number model and bounds of the explored inputs.       *)

GScale == 10
DtScale == 100
RScale == 10
FScale == 10000
UnitScale == 100
GTextScale == 10
DtTextScale == 1000

MaxBodies == 3
MaxSteps == 2
MaxSoloSteps == 10
MaxPairSteps == 10
MaxControllerSteps == 4
TrailCap == 2

\* PhysicsEngine.__init__: screen_width, screen_height (constructor arguments)
ScreenWidth == 8
ScreenHeight == 6

\* PhysicsEngine.__init__: self.softening = 0.1, in 1/RScale
Softening == RScale \div 10

GValues == {10 * GScale}
DtValues == {0, DtScale}

\* the bodies create_object is asked for: position (a pixel of the screen),
\* velocity, mass and radius
NewBodies ==
    { [x |-> 1, y |-> 1, vx |-> 0, vy |-> 0, mass |-> 1, radius |-> 1],
      [x |-> 2, y |-> 1, vx |-> 0, vy |-> 0, mass |-> 3, radius |-> 1],
      [x |-> 2, y |-> 2, vx |-> 10, vy |-> -10, mass |-> 1, radius |-> 2],
      [x |-> 1, y |-> 1, vx |-> 10, vy |-> -10, mass |-> 3, radius |-> 1],
      [x |-> 7, y |-> 5, vx |-> 1, vy |-> 0, mass |-> 1, radius |-> 1],
      [x |-> 4, y |-> 3, vx |-> -1, vy |-> 1, mass |-> 3, radius |-> 2],
      [x |-> 0, y |-> 1, vx |-> 0, vy |-> 0, mass |-> 1, radius |-> 1] }

----------------------------------------------------------------------------
(* Arithmetic.                                                             *)

Abs(a) == IF a < 0 THEN -a ELSE a

Min(a, b) == IF a <= b THEN a ELSE b

Max(a, b) == IF a >= b THEN a ELSE b

\* a / b rounded to the nearest integer, ties away from zero; b # 0
RoundDiv(a, b) ==
    LET q == (2 * Abs(a) + Abs(b)) \div (2 * Abs(b))
    IN  IF (a < 0) = (b < 0) THEN q ELSE -q

RECURSIVE FloorRoot(_, _, _, _)
\* the largest k in lo..hi with k^e <= n (lo^e <= n is given), e in {2, 3}
FloorRoot(n, e, lo, hi) ==
    IF lo >= hi THEN lo
    ELSE LET mid == (lo + hi + 1) \div 2
             pw == IF e = 2 THEN mid * mid ELSE mid * mid * mid
         IN  IF pw <= n THEN FloorRoot(n, e, mid, hi)
                        ELSE FloorRoot(n, e, lo, mid - 1)

\* k or k + 1, whichever is nearer to the square root of n, k being its floor
NearerSqrt(n, k) == IF n - k * k > k THEN k + 1 ELSE k

\* math.sqrt(n) rounded to the nearest integer, n >= 0
RoundSqrt(n) == NearerSqrt(n, FloorRoot(n, 2, 0, Min(n, 40000)))

\* k or k + 1, whichever is nearer to the cube root of n, k being its floor
NearerCbrt(n, k) ==
    IF 8 * n >= (2 * k + 1) * (2 * k + 1) * (2 * k + 1) THEN k + 1 ELSE k

\* n ** (1 / 3) rounded to the nearest integer, n >= 0
RoundCbrt(n) == NearerCbrt(n, FloorRoot(n, 3, 0, Min(n, 1000)))

----------------------------------------------------------------------------
(* Object (src/gravity_simulator/objects.py).                              *)

\* Object.__init__: a new active body with an empty trail
Object(id, x, y, mass, radius, vx, vy) ==
    [id |-> id, x |-> x, y |-> y, mass |-> mass, radius |-> radius,
     vx |-> vx, vy |-> vy, active |-> TRUE, trail |-> <<>>,
     max_trail_length |-> TrailCap]

----------------------------------------------------------------------------
(* PhysicsEngine: forces.                                                  *)

\* calc_force_beetween_particle: the regularised distance r, in 1/RScale
regularized_r(p1, p2) ==
    LET dx == p2.x - p1.x
        dy == p2.y - p1.y
        r_sq == dx * dx + dy * dy
    IN  RoundSqrt(r_sq * RScale * RScale + Softening * Softening)

\* calc_force_beetween_particle: the divisor r_sq * r, in 1/RScale
force_divisor(p1, p2) ==
    LET dx == p2.x - p1.x
        dy == p2.y - p1.y
        r_sq == dx * dx + dy * dy
    IN  r_sq * regularized_r(p1, p2)

\* calc_force_beetween_particle: fx, fy from force_over_r_cubed
\* a force that points away from the other body
repulsive_components(force_over_r_cubed, dx, dy) ==
    [raised |-> FALSE, fx |-> -(force_over_r_cubed * dx), fy |-> -(force_over_r_cubed * dy)]

force_components(force_over_r_cubed, dx, dy) ==
    [raised |-> FALSE, fx |-> force_over_r_cubed * dx, fy |-> force_over_r_cubed * dy]

\* calc_force_beetween_particle: the division by den = r_sq * r, which raises
\* when den is zero
force_over(g, p1, p2, den) ==
    IF den = 0
    THEN [raised |-> TRUE, fx |-> 0, fy |-> 0]
    ELSE force_components(RoundDiv(g * p1.mass * p2.mass * RScale * FScale, GScale * den),
                          p2.x - p1.x, p2.y - p1.y)

\* calc_force_beetween_particle(p1, p2): the force on p1 from p2, in 1/FScale
calc_force_beetween_particle(g, p1, p2) == force_over(g, p1, p2, force_divisor(p1, p2))

\* the loop's test without the skip of inactive bodies
skips_self(other_particle, target_particle) ==
    other_particle.id = target_particle.id /\ other_particle.active

\* the loop's test without the skip of the target itself
skips_inactive(other_particle, target_particle) == ~other_particle.active

\* the loop's test for skipping other_particle
skips_other(other_particle, target_particle) ==
    \/ other_particle.id = target_particle.id /\ other_particle.active
    \/ ~other_particle.active

RECURSIVE total_force_from(_, _, _, _, _, _)
\* an accumulation that keeps the last force found instead of the sum
accumulate_last(g, ps, target_particle, k, fx_total, fy_total, f) ==
    IF f.raised
    THEN [raised |-> TRUE, fx |-> fx_total, fy |-> fy_total]
    ELSE total_force_from(g, ps, target_particle, k + 1, f.fx, f.fy)

\* calculate_total_force_for_particle: the loop's accumulation of the force f
\* found for the body at index k
accumulate_force(g, ps, target_particle, k, fx_total, fy_total, f) ==
    IF f.raised
    THEN [raised |-> TRUE, fx |-> fx_total, fy |-> fy_total]
    ELSE total_force_from(g, ps, target_particle, k + 1,
                          fx_total + f.fx, fy_total + f.fy)

\* calculate_total_force_for_particle: the loop from index k on, with the sums so far
total_force_from(g, ps, target_particle, k, fx_total, fy_total) ==
    IF k > Len(ps)
    THEN [raised |-> FALSE, fx |-> fx_total, fy |-> fy_total]
    ELSE IF skips_other(ps[k], target_particle)
    THEN total_force_from(g, ps, target_particle, k + 1, fx_total, fy_total)
    ELSE accumulate_force(g, ps, target_particle, k, fx_total, fy_total,
                          calc_force_beetween_particle(g, target_particle, ps[k]))

calculate_total_force_for_particle(g, ps, target_particle) ==
    total_force_from(g, ps, target_particle, 1, 0, 0)

----------------------------------------------------------------------------
(* PhysicsEngine: merging and the collision scan.                          *)

\* the merged radius of the legacy engine (src/physics.py): sqrt(total_mass)
legacy_radius(p1, p2) == RoundSqrt(p1.mass + p2.mass)

\* merge_particles: the merged radius
merged_radius(p1, p2) ==
    RoundCbrt(p1.radius * p1.radius * p1.radius + p2.radius * p2.radius * p2.radius)

\* the mean of the two components, the masses ignored
unweighted_component(m1, c1, m2, c2) == RoundDiv(c1 + c2, 2)

\* merge_particles: a velocity or position component of the merged body
merged_component(m1, c1, m2, c2) ==
    RoundDiv(m1 * c1 + m2 * c2, m1 + m2)

\* p1 after a merge that leaves total_mass out
absorbed_keeping_mass(p1, p2) ==
    [p1 EXCEPT !.radius = merged_radius(p1, p2),
               !.vx = merged_component(p1.mass, p1.vx, p2.mass, p2.vx),
               !.vy = merged_component(p1.mass, p1.vy, p2.mass, p2.vy),
               !.x = merged_component(p1.mass, p1.x, p2.mass, p2.x),
               !.y = merged_component(p1.mass, p1.y, p2.mass, p2.y)]

\* merge_particles: p1 after it absorbed p2
absorbed(p1, p2) ==
    [p1 EXCEPT !.mass = p1.mass + p2.mass,
               !.radius = merged_radius(p1, p2),
               !.vx = merged_component(p1.mass, p1.vx, p2.mass, p2.vx),
               !.vy = merged_component(p1.mass, p1.vy, p2.mass, p2.vy),
               !.x = merged_component(p1.mass, p1.x, p2.mass, p2.x),
               !.y = merged_component(p1.mass, p1.y, p2.mass, p2.y)]

\* a merge without the test of the active flags
merge_unguarded(ps, a, b) ==
    [ps EXCEPT ![a] = absorbed(ps[a], ps[b]),
               ![b] = [@ EXCEPT !.active = FALSE]]

\* a merge that leaves p2 active
merge_keeping_both(ps, a, b) ==
    IF ~ps[a].active \/ ~ps[b].active
    THEN ps
    ELSE [ps EXCEPT ![a] = absorbed(ps[a], ps[b])]

\* a merge that does not read the active flags and marks the survivor active
merge_reviving(ps, a, b) ==
    [ps EXCEPT ![a] = [absorbed(ps[a], ps[b]) EXCEPT !.active = TRUE],
               ![b] = [@ EXCEPT !.active = FALSE]]

\* merge_particles(p1, p2) on the bodies at indices a and b of ps
merge_particles(ps, a, b) ==
    IF ~ps[a].active \/ ~ps[b].active
    THEN ps
    ELSE [ps EXCEPT ![a] = absorbed(ps[a], ps[b]),
                    ![b] = [@ EXCEPT !.active = FALSE]]

\* handle_collision: distance_sq < min_distance ** 2
overlaps(p1, p2) ==
    LET dx == p2.x - p1.x
        dy == p2.y - p1.y
        min_distance == p1.radius + p2.radius
    IN  dx * dx + dy * dy < min_distance * min_distance

\* a pair key made of the smaller identity twice
pair_key_of_min(p1, p2) == <<Min(p1.id, p2.id), Min(p1.id, p2.id)>>

\* handle_collision: pair_key
pair_key(p1, p2) == <<Min(p1.id, p2.id), Max(p1.id, p2.id)>>

\* handle_collision: active_particles, as indices into ps
active_indices(ps) ==
    SelectSeq([k \in 1..Len(ps) |-> k], LAMBDA k : ps[k].active)

RECURSIVE collision_scan(_, _, _, _, _, _)
\* a scan that tests every pair of active_particles, the active flags unread
scan_unchecked(ps, act, i, j, collided_pairs, merges) ==
    IF i > Len(act)
    THEN [ps |-> ps, merges |-> merges]
    ELSE IF j > Len(act)
    THEN collision_scan(ps, act, i + 1, i + 2, collided_pairs, merges)
    ELSE IF overlaps(ps[act[i]], ps[act[j]])
            /\ pair_key(ps[act[i]], ps[act[j]]) \notin collided_pairs
    THEN collision_scan(merge_particles(ps, act[i], act[j]), act, i, j + 1,
                        collided_pairs \cup {pair_key(ps[act[i]], ps[act[j]])},
                        merges + 1)
    ELSE collision_scan(ps, act, i, j + 1, collided_pairs, merges)

\* handle_collision: the two nested loops, at (i, j) of active_particles
collision_scan(ps, act, i, j, collided_pairs, merges) ==
    IF i > Len(act)
    THEN [ps |-> ps, merges |-> merges]
    ELSE IF ~ps[act[i]].active \/ j > Len(act)
    THEN collision_scan(ps, act, i + 1, i + 2, collided_pairs, merges)
    ELSE IF ~ps[act[j]].active
    THEN collision_scan(ps, act, i, j + 1, collided_pairs, merges)
    ELSE IF overlaps(ps[act[i]], ps[act[j]])
            /\ pair_key(ps[act[i]], ps[act[j]]) \notin collided_pairs
    THEN collision_scan(merge_particles(ps, act[i], act[j]), act, i, j + 1,
                        collided_pairs \cup {pair_key(ps[act[i]], ps[act[j]])},
                        merges + 1)
    ELSE collision_scan(ps, act, i, j + 1, collided_pairs, merges)

handle_collision(ps) ==
    collision_scan(ps, active_indices(ps), 1, 2, {}, 0)

----------------------------------------------------------------------------
(* PhysicsEngine.update: one body's integration, boundary and trail.       *)

\* v + (f / mass) * dt
new_velocity(v, f, mass, dtv) ==
    v + RoundDiv(RoundDiv(f, mass) * dtv, FScale * DtScale)

\* x + v * dt
new_position(x, v, dtv) == x + RoundDiv(v * dtv, DtScale)

\* a wrap-around as soon as the extent crosses an edge
wrap_on_crossing(c, r, size) ==
    IF c - r < 0 THEN size + r
    ELSE IF c + r > size THEN -r
    ELSE c

\* a boundary that lets the body go
no_wrap(c, r, size) == c

\* the wrap-around of one coordinate c of a body of radius r in [0, size]
wrap(c, r, size) ==
    IF c + r < 0 THEN size + r
    ELSE IF c - r > size THEN -r
    ELSE c

\* teleported: the coordinate lay entirely beyond an edge
beyond(c, r, size) == c + r < 0 \/ c - r > size

\* the point at distance radius from (x, y) against the velocity, speed > 0
edge_point(p, speed) ==
    <<p.x + RoundDiv(p.radius * RoundDiv(-p.vx * UnitScale, speed), UnitScale),
      p.y + RoundDiv(p.radius * RoundDiv(-p.vy * UnitScale, speed), UnitScale)>>

\* the legacy sample: the centre of the body
trail_point_centre(p, speed) == <<p.x, p.y>>

trail_point_at(p, speed) == IF speed > 0 THEN edge_point(p, speed) ELSE <<p.x, p.y>>

\* the trail sample: the point of the body's edge opposite to its motion
trail_point(p) == trail_point_at(p, RoundSqrt(p.vx * p.vx + p.vy * p.vy))

\* a cap that drops the newest sample
capped_newest(trail, max_trail_length) ==
    IF Len(trail) > max_trail_length THEN SubSeq(trail, 1, Len(trail) - 1) ELSE trail

\* p.trail.pop(0) when the trail outgrew max_trail_length
capped(trail, max_trail_length) ==
    IF Len(trail) > max_trail_length THEN Tail(trail) ELSE trail

\* a trail that is kept through a teleport
trail_kept(p, teleported) ==
    capped(Append(p.trail, trail_point(p)), p.max_trail_length)

\* the trail after this step's sample: cleared on a teleport, capped FIFO
new_trail(p, teleported) ==
    capped(Append(IF teleported THEN <<>> ELSE p.trail, trail_point(p)),
           p.max_trail_length)

with_trail(moved, teleported) == [moved EXCEPT !.trail = new_trail(moved, teleported)]

\* boundary handling and trail of the body p integrated to (x, y) with (vx, vy)
placed(p, vx, vy, x, y) ==
    with_trail([p EXCEPT !.vx = vx, !.vy = vy,
                         !.x = wrap(x, p.radius, ScreenWidth),
                         !.y = wrap(y, p.radius, ScreenHeight)],
               beyond(x, p.radius, ScreenWidth) \/ beyond(y, p.radius, ScreenHeight))

\* the position advanced with the velocity of before the step (explicit Euler)
advanced_explicit(p, vx, vy, dtv) ==
    placed(p, vx, vy, new_position(p.x, p.vx, dtv), new_position(p.y, p.vy, dtv))

\* update: the position advanced with the new velocity, then placed
advanced(p, vx, vy, dtv) ==
    placed(p, vx, vy, new_position(p.x, vx, dtv), new_position(p.y, vy, dtv))

\* the body of update's loop for one active body p under net force f
integrate(p, f, dtv) ==
    advanced(p, new_velocity(p.vx, f.fx, p.mass, dtv),
                new_velocity(p.vy, f.fy, p.mass, dtv), dtv)

\* the net force update() computes for the body at index k, given the collection
\* as it is when the loop reaches k
force_for(g, ps, k) == calculate_total_force_for_particle(g, ps, ps[k])

RECURSIVE update_loop(_, _, _, _, _)
\* update: the loop's body for the active body at index k under net force f
update_body(g, dtv, ps, k, forces, f) ==
    IF f.raised
    THEN [raised |-> TRUE, ps |-> ps, forces |-> forces, merges |-> 0]
    ELSE update_loop(g, dtv, [ps EXCEPT ![k] = integrate(ps[k], f, dtv)],
                     k + 1, [forces EXCEPT ![k] = <<f.fx, f.fy>>])

\* update: the loop over self.particles from index k on; forces records the net
\* force applied to each body
update_loop(g, dtv, ps, k, forces) ==
    IF k > Len(ps)
    THEN [raised |-> FALSE, ps |-> ps, forces |-> forces, merges |-> 0]
    ELSE IF ~ps[k].active
    THEN update_loop(g, dtv, ps, k + 1, forces)
    ELSE update_body(g, dtv, ps, k, forces, force_for(g, ps, k))

NoForces(ps) == [k \in 1..Len(ps) |-> <<0, 0>>]

\* a step that drops the absorbed bodies from the collection after the scan
collide_and_prune(looped, scanned) ==
    IF looped.raised THEN looped
    ELSE [looped EXCEPT !.ps = SelectSeq(scanned.ps, LAMBDA p : p.active),
                        !.merges = scanned.merges]

\* update: self.handle_collision() after the loop, unless the loop raised
then_collide(looped, scanned) ==
    IF looped.raised THEN looped
    ELSE [looped EXCEPT !.ps = scanned.ps, !.merges = scanned.merges]

collide_after(looped) ==
    then_collide(looped, IF looped.raised THEN looped ELSE handle_collision(looped.ps))

\* a step that returns at once when dt is zero
update_unless_paused(g, dtv, ps) ==
    IF dtv = 0
    THEN [raised |-> FALSE, ps |-> ps, forces |-> NoForces(ps), merges |-> 0]
    ELSE collide_after(update_loop(g, dtv, ps, 1, NoForces(ps)))

\* update()
update(g, dtv, ps) == collide_after(update_loop(g, dtv, ps, 1, NoForces(ps)))

----------------------------------------------------------------------------
(* The public operations.                                                  *)

\* a number as an input box shows it: str(round(v, digits)), v in 1/scale and
\* the text in 1/textScale
shown(v, scale, textScale) == [kind |-> "number", value |-> RoundDiv(v * textScale, scale)]

\* SimulationController.__init__ on the engine just made: running, the
\* engine's dt remembered, the boxes showing the engine's parameters
ControllerInit ==
    /\ is_paused = FALSE
    /\ original_dt = dt
    /\ g_text = shown(G, GScale, GTextScale)
    /\ dt_text = shown(dt, DtScale, DtTextScale)
    /\ earlier = <<>>

Init ==
    /\ particles = <<>>
    /\ G \in GValues
    /\ dt \in DtValues
    /\ raised = FALSE
    /\ steps = 0
    /\ nextId = 1
    /\ forceUsed = <<>>
    /\ lastCall = [op |-> "init", a |-> 0, b |-> 0, merges |-> 0]
    /\ before = <<>>
    /\ ControllerInit

\* add_particle(Object(x, y, mass, radius, vx, vy)), as create_object calls it
AddParticle ==
    /\ ~raised
    /\ nextId <= MaxBodies
    /\ \E b \in NewBodies :
          particles' = Append(particles,
                              Object(nextId, b.x, b.y, b.mass, b.radius, b.vx, b.vy))
    /\ nextId' = nextId + 1
    /\ forceUsed' = <<>>
    /\ lastCall' = [op |-> "add_particle", a |-> nextId, b |-> 0, merges |-> 0]
    /\ before' = particles
    /\ UNCHANGED <<G, dt, raised, steps>>
    /\ UNCHANGED controller

\* index of the first occurrence of the body with identity id, 0 when absent
first_index(ps, id) ==
    IF \E k \in 1..Len(ps) : ps[k].id = id
    THEN CHOOSE k \in 1..Len(ps) :
            ps[k].id = id /\ \A m \in 1..(k - 1) : ps[m].id # id
    ELSE 0

\* the collection cut off at index k
cut_at(ps, k) ==
    IF k = 0 THEN ps
    ELSE SubSeq(ps, 1, k - 1)

\* the collection without its element at index k (k = 0: unchanged)
without(ps, k) ==
    IF k = 0 THEN ps
    ELSE SubSeq(ps, 1, k - 1) \o SubSeq(ps, k + 1, Len(ps))

\* remove_particle(particle)
remove_particle(ps, id) == without(ps, first_index(ps, id))

RemoveParticle ==
    /\ ~raised
    /\ steps < MaxSteps
    /\ \E id \in 1..(nextId - 1) :
          /\ particles' = remove_particle(particles, id)
          /\ lastCall' = [op |-> "remove_particle", a |-> id, b |-> 0, merges |-> 0]
    /\ forceUsed' = <<>>
    /\ steps' = steps + 1
    /\ before' = particles
    /\ UNCHANGED <<G, dt, raised, nextId>>
    /\ UNCHANGED controller

\* merge_particles(p1, p2) on two bodies of the collection
MergeParticles ==
    /\ ~raised
    /\ steps < MaxSteps
    /\ \E a \in 1..Len(particles), b \in 1..Len(particles) :
          /\ a # b
          /\ particles' = merge_particles(particles, a, b)
          /\ lastCall' = [op |-> "merge_particles", a |-> a, b |-> b,
                          merges |-> IF particles[a].active /\ particles[b].active
                                     THEN 1 ELSE 0]
    /\ forceUsed' = <<>>
    /\ steps' = steps + 1
    /\ before' = particles
    /\ UNCHANGED <<G, dt, raised, nextId>>
    /\ UNCHANGED controller

\* handle_collision()
HandleCollision ==
    /\ ~raised
    /\ steps < MaxSteps
    /\ \E scanned \in {handle_collision(particles)} :
          /\ particles' = scanned.ps
          /\ lastCall' = [op |-> "handle_collision", a |-> 0, b |-> 0,
                          merges |-> scanned.merges]
    /\ forceUsed' = <<>>
    /\ steps' = steps + 1
    /\ before' = particles
    /\ UNCHANGED <<G, dt, raised, nextId>>
    /\ UNCHANGED controller

\* update(), called while fewer than bound engine calls were made
Step(bound) ==
    /\ ~raised
    /\ steps < bound
    /\ \E done \in {update(G, dt, particles)} :
          /\ particles' = done.ps
          /\ raised' = done.raised
          /\ forceUsed' = done.forces
          /\ lastCall' = [op |-> "update", a |-> 0, b |-> 0, merges |-> done.merges]
    /\ steps' = steps + 1
    /\ before' = particles
    /\ UNCHANGED <<G, dt, nextId>>
    /\ UNCHANGED controller

Update == Step(MaxSteps)

Next ==
    \/ AddParticle
    \/ RemoveParticle
    \/ MergeParticles
    \/ HandleCollision
    \/ Update

Spec == Init /\ [][Next]_vars

----------------------------------------------------------------------------
(* An engine holding a single body, stepped MaxSoloSteps times.            *)

SoloDtValues == {DtScale \div 2, DtScale, 2 * DtScale}

InitSolo ==
    /\ \E b \in NewBodies :
          particles = <<Object(1, b.x, b.y, b.mass, b.radius, b.vx, b.vy)>>
    /\ G \in GValues
    /\ dt \in SoloDtValues
    /\ raised = FALSE
    /\ steps = 0
    /\ nextId = 2
    /\ forceUsed = <<>>
    /\ lastCall = [op |-> "add_particle", a |-> 1, b |-> 0, merges |-> 0]
    /\ before = <<>>
    /\ ControllerInit

SoloUpdate == Step(MaxSoloSteps)

NextSolo == SoloUpdate

SpecSolo == InitSolo /\ [][NextSolo]_vars

----------------------------------------------------------------------------
(* Two equal bodies at rest on a horizontal line, as the attraction test    *)
(* of tests/test_physics.py sets them up: one at x = 0, the other at the    *)
(* far side of the screen, G and dt chosen for ten gentle steps.            *)

\* G for an initial acceleration of 9 or 10 units across the screen's width
PairGValues == {k * ScreenWidth * ScreenWidth * GScale : k \in {9, 10}}

PairDt == (6 * DtScale) \div 100

InitPair ==
    /\ \E y \in 0..ScreenHeight :
          particles = <<Object(1, 0, y, 1, 1, 0, 0), Object(2, ScreenWidth, y, 1, 1, 0, 0)>>
    /\ G \in PairGValues
    /\ dt = PairDt
    /\ raised = FALSE
    /\ steps = 0
    /\ nextId = 3
    /\ forceUsed = <<>>
    /\ lastCall = [op |-> "add_particle", a |-> 2, b |-> 0, merges |-> 0]
    /\ before = <<>>
    /\ ControllerInit

PairUpdate == Step(MaxPairSteps)

NextPair == PairUpdate

SpecPair == InitPair /\ [][NextPair]_vars

----------------------------------------------------------------------------
(* utils.safe_float_convert.  A text is empty, not a number ("junk"), a     *)
(* decimal number (its value in 1/textScale), or one of the spellings       *)
(* float() accepts for the special values: "inf", "-inf" ("ninf"), "nan".   *)

Text(kind, value) == [kind |-> kind, value |-> value]

\* float(text) of a decimal number, in 1/scale
float_of(text, scale, textScale) == RoundDiv(text.value * scale, textScale)

\* max(min_val, min(max_val, value)) of a finite value
clamp(value, min_val, max_val) == Max(min_val, Min(max_val, value))

\* max(min_val, min(max_val, value)) of a special value: min(max_val, nan) is
\* max_val, because nan < max_val is false
clamp_special(kind, min_val, max_val) ==
    IF kind = "ninf" THEN min_val ELSE Max(min_val, max_val)

\* safe_float_convert(text, default, min_val, max_val)
safe_float_convert(text, default, min_val, max_val, scale, textScale) ==
    IF text.kind = "empty" THEN clamp(default, min_val, max_val)
    ELSE IF text.kind = "junk" THEN default
    ELSE IF text.kind = "number"
         THEN clamp(float_of(text, scale, textScale), min_val, max_val)
    ELSE clamp_special(text.kind, min_val, max_val)

\* the calls of safe_float_convert explored: texts, fallbacks and ranges
\* [min_val, max_val] with min_val <= max_val, all in 1/GScale
ConvertTexts ==
    {Text("empty", 0), Text("junk", 0), Text("nan", 0), Text("inf", 0),
     Text("ninf", 0), Text("number", -GTextScale), Text("number", 5 * GTextScale),
     Text("number", 50 * GTextScale)}

ConvertDefaults == {-GScale, 0, 5 * GScale, 10 * GScale, 50 * GScale}

ConvertRanges == {<<GScale, 10 * GScale>>, <<0, GScale>>, <<5 * GScale, 5 * GScale>>}

\* a call of safe_float_convert about to be made
InitConvert ==
    /\ particles = <<>>
    /\ G \in GValues
    /\ dt = DtScale
    /\ raised = FALSE
    /\ steps = 0
    /\ nextId = 1
    /\ forceUsed = <<>>
    /\ \E text \in ConvertTexts, default \in ConvertDefaults, range \in ConvertRanges :
          lastCall = [op |-> "call", b |-> 0, merges |-> 0,
                      a |-> [text |-> text, default |-> default,
                             min_val |-> range[1], max_val |-> range[2]]]
    /\ before = <<>>
    /\ ControllerInit

\* safe_float_convert(text, default, min_val, max_val) returns
SafeFloatConvert ==
    /\ lastCall.op = "call"
    /\ lastCall' = [lastCall EXCEPT
                       !.op = "safe_float_convert",
                       !.b = safe_float_convert(lastCall.a.text, lastCall.a.default,
                                                lastCall.a.min_val, lastCall.a.max_val,
                                                GScale, GTextScale)]
    /\ UNCHANGED <<particles, G, dt, raised, steps, nextId, forceUsed, before>>
    /\ UNCHANGED controller

NextConvert == SafeFloatConvert

SpecConvert == InitConvert /\ [][NextConvert]_vars

----------------------------------------------------------------------------
(* SimulationController.                                                   *)

\* the engine's parameters and the controller's own fields
settings == [G |-> G, dt |-> dt, is_paused |-> is_paused, original_dt |-> original_dt]

\* the same with the input boxes, as one value
params ==
    [G |-> G, dt |-> dt, is_paused |-> is_paused, original_dt |-> original_dt,
     g_text |-> g_text, dt_text |-> dt_text]

\* update_physics_parameters(): G and dt read from the input boxes
update_physics_parameters(c) ==
    [c EXCEPT !.G = safe_float_convert(c.g_text, 100 * GScale, GScale \div 10,
                                       10000 * GScale, GScale, GTextScale),
              !.dt = safe_float_convert(c.dt_text, (5 * DtScale) \div 100, 0,
                                        DtScale, DtScale, DtTextScale)]

\* an adjustment of dt that never leaves the pause
staying_paused(c, dt_delta) == c

\* adjust_physics_parameters: the state it leaves when dt_delta resumes a pause
resumed(c, dt_delta) ==
    IF c.is_paused /\ dt_delta # 0
    THEN [c EXCEPT !.is_paused = FALSE, !.original_dt = c.dt]
    ELSE c

\* adjust_physics_parameters: the new parameters written to the engine and
\* the boxes, the pause entered when dt reaches zero
adjusted(c, new_g, new_dt) ==
    [c EXCEPT !.G = new_g, !.g_text = shown(new_g, GScale, GTextScale),
              !.dt = new_dt, !.dt_text = shown(new_dt, DtScale, DtTextScale),
              !.is_paused = IF new_dt = 0 THEN TRUE ELSE c.is_paused]

\* an adjustment without the lower bounds max(0.1, ...) and max(0.0, ...)
adjust_unbounded(c, g_delta, dt_delta) ==
    adjusted(resumed(c, dt_delta), c.G + g_delta, c.dt + dt_delta)

\* adjust_physics_parameters(g_delta, dt_delta)
adjust_physics_parameters(c, g_delta, dt_delta) ==
    adjusted(resumed(c, dt_delta),
             Max(GScale \div 10, c.G + g_delta), Max(0, c.dt + dt_delta))

\* a pause that forgets to save the running dt
toggle_pause_unsaved(c) ==
    IF c.is_paused
    THEN [c EXCEPT !.dt = c.original_dt,
                   !.dt_text = shown(c.original_dt, DtScale, DtTextScale),
                   !.is_paused = FALSE]
    ELSE [c EXCEPT !.dt = 0, !.dt_text = Text("number", 0), !.is_paused = TRUE]

\* toggle_pause()
toggle_pause(c) ==
    IF c.is_paused
    THEN [c EXCEPT !.dt = c.original_dt,
                   !.dt_text = shown(c.original_dt, DtScale, DtTextScale),
                   !.is_paused = FALSE]
    ELSE [c EXCEPT !.original_dt = c.dt, !.dt = 0,
                   !.dt_text = Text("number", 0), !.is_paused = TRUE]

\* the deltas adjust_physics_parameters is called with
GDeltas == {-10 * GScale, 0, 10 * GScale}

DtDeltas == {-(DtScale \div 100), 0, DtScale \div 100}

\* what the user leaves in the boxes
TypedGTexts == {Text("junk", 0), Text("ninf", 0), Text("number", 20000 * GTextScale)}

TypedDtTexts ==
    {Text("empty", 0), Text("number", -DtTextScale), Text("number", DtTextScale \div 50)}

ControllerDtValues == {DtScale \div 50, (5 * DtScale) \div 100}

\* the engine and its controller as main sets them up
InitController ==
    /\ particles = <<Object(1, 1, 1, 1, 1, 0, 0)>>
    /\ G \in GValues
    /\ dt \in ControllerDtValues
    /\ raised = FALSE
    /\ steps = 0
    /\ nextId = 2
    /\ forceUsed = <<>>
    /\ lastCall = [op |-> "init", a |-> 0, b |-> 0, merges |-> 0]
    /\ before = <<>>
    /\ ControllerInit

\* the call op of the controller, which leaves the parameters c
ControllerCall(op, c) ==
    /\ steps < MaxControllerSteps
    /\ G' = c.G
    /\ dt' = c.dt
    /\ is_paused' = c.is_paused
    /\ original_dt' = c.original_dt
    /\ g_text' = c.g_text
    /\ dt_text' = c.dt_text
    /\ earlier' = SubSeq(<<[op |-> op, from |-> settings]>> \o earlier, 1,
                         Min(2, Len(earlier) + 1))
    /\ lastCall' = [op |-> op, a |-> 0, b |-> 0, merges |-> 0]
    /\ before' = particles
    /\ steps' = steps + 1
    /\ UNCHANGED <<particles, raised, nextId, forceUsed>>

UpdatePhysicsParameters ==
    ControllerCall("update_physics_parameters", update_physics_parameters(params))

AdjustPhysicsParameters ==
    \E g_delta \in GDeltas, dt_delta \in DtDeltas :
       ControllerCall("adjust_physics_parameters",
                      adjust_physics_parameters(params, g_delta, dt_delta))

TogglePause == ControllerCall("toggle_pause", toggle_pause(params))

\* InputBox.handle_event: the user edits the G box or the dt box
TypeText ==
    /\ steps < MaxControllerSteps
    /\ \/ g_text' \in TypedGTexts /\ UNCHANGED dt_text
       \/ dt_text' \in TypedDtTexts /\ UNCHANGED g_text
    /\ UNCHANGED <<particles, G, dt, raised, steps, nextId, forceUsed, lastCall,
                   before, is_paused, original_dt, earlier>>

NextController ==
    \/ UpdatePhysicsParameters
    \/ AdjustPhysicsParameters
    \/ TogglePause
    \/ TypeText

SpecController == InitController /\ [][NextController]_vars

\* the controller driven by its pause and adjustment keys only
NextPause ==
    \/ AdjustPhysicsParameters
    \/ TogglePause

SpecPause == InitController /\ [][NextPause]_vars

----------------------------------------------------------------------------
(* Properties of one step.                                                 *)

ActiveIndices(ps) == {k \in 1..Len(ps) : ps[k].active}

\* the last call was an update() that completed
Stepped == lastCall.op = "update" /\ ~raised

force_pair(f) == <<f.fx, f.fy>>

\* the net force on the body at index k computed from the bodies as they were
\* when the last call began
start_force(k) ==
    force_pair(calculate_total_force_for_particle(G, before, before[k]))

\* C1: in every update() that completes, the net force applied to each active
\* body is the one computed from the positions all bodies had when the call
\* began, so no force depends on a body integrated earlier in the same call.
C1_ForcesFromStartOfStep ==
    Stepped => \A k \in ActiveIndices(before) : forceUsed[k] = start_force(k)

\* C2: update() never raises, whatever bodies of positive mass and radius the
\* engine holds, two bodies at the same position included.
C2_StepNeverRaises == ~raised

\* the centre of p lies in the region shrunk (sign = 1) or grown (sign = -1)
\* by the radius of p
Within(p, sign) ==
    /\ sign * p.radius <= p.x /\ p.x <= ScreenWidth - sign * p.radius
    /\ sign * p.radius <= p.y /\ p.y <= ScreenHeight - sign * p.radius

----------------------------------------------------------------------------
(* Properties of merging.                                                  *)

\* the last call merged: merge_particles on two active bodies, or a scan or a
\* step that found overlapping bodies
MergedPair ==
    /\ lastCall.op = "merge_particles"
    /\ lastCall.merges = 1

Scanned == lastCall.op = "handle_collision" \/ Stepped

MutuallyOverlapping(ps) ==
    \A i, j \in ActiveIndices(ps) : i # j => overlaps(ps[i], ps[j])

\* C4: one handle_collision() on three active bodies that overlap pairwise
\* makes exactly two merges and leaves exactly one body active, in whatever
\* order the three stand in the collection.
C4_ThreeOverlappingMergeTwice ==
    (/\ lastCall.op = "handle_collision"
     /\ Cardinality(ActiveIndices(before)) = 3
     /\ MutuallyOverlapping(before))
    => (/\ lastCall.merges = 2
        /\ Cardinality(ActiveIndices(particles)) = 1)

\* a scan of three pairwise overlapping bodies, the heaviest standing last
C4_Witness ==
    /\ lastCall.op = "handle_collision"
    /\ Cardinality(ActiveIndices(before)) = 3
    /\ MutuallyOverlapping(before)
    /\ before[3].mass > before[1].mass
    /\ Cardinality(ActiveIndices(particles)) = 1

\* m * v' equals m1 * v1 + m2 * v2 to within the rounding of v' to a unit
SameMomentum(m, v, m1, v1, m2, v2) ==
    2 * Abs(m * v - (m1 * v1 + m2 * v2)) <= m

\* C5: merge_particles on two active bodies conserves linear momentum: the
\* survivor's mass times its velocity is m1 * v1 + m2 * v2, componentwise (to
\* within the rounding of the velocity); so does handle_collision on two
\* overlapping bodies.
C5_MomentumConserved ==
    /\ MergedPair =>
          /\ SameMomentum(particles[lastCall.a].mass, particles[lastCall.a].vx,
                          before[lastCall.a].mass, before[lastCall.a].vx,
                          before[lastCall.b].mass, before[lastCall.b].vx)
          /\ SameMomentum(particles[lastCall.a].mass, particles[lastCall.a].vy,
                          before[lastCall.a].mass, before[lastCall.a].vy,
                          before[lastCall.b].mass, before[lastCall.b].vy)
    /\ (lastCall.op = "handle_collision" /\ lastCall.merges = 1
        /\ Cardinality(ActiveIndices(before)) = 2) =>
          \A k \in ActiveIndices(particles) :
             \A i, j \in ActiveIndices(before) :
                i < j =>
                   /\ SameMomentum(particles[k].mass, particles[k].vx,
                                   before[i].mass, before[i].vx,
                                   before[j].mass, before[j].vx)
                   /\ SameMomentum(particles[k].mass, particles[k].vy,
                                   before[i].mass, before[i].vy,
                                   before[j].mass, before[j].vy)

\* a merge of a light body at rest with a heavy moving one
C5_Witness ==
    /\ MergedPair
    /\ before[lastCall.a].mass < before[lastCall.b].mass
    /\ before[lastCall.a].vx = 0
    /\ before[lastCall.b].vx # 0
    /\ particles[lastCall.a].vx # 0

RECURSIVE MassFrom(_, _)
MassFrom(ps, k) ==
    IF k > Len(ps) THEN 0
    ELSE (IF ps[k].active THEN ps[k].mass ELSE 0) + MassFrom(ps, k + 1)

\* the sum of the masses of the active bodies
ActiveMass(ps) == MassFrom(ps, 1)

\* C6: a merge leaves the survivor with mass exactly m1 + m2, and the sum of
\* the masses of the active bodies is the same after a merge, a scan or a
\* whole update() as before it, however many merges the call made.
C6_MassConserved ==
    /\ MergedPair =>
          particles[lastCall.a].mass
             = before[lastCall.a].mass + before[lastCall.b].mass
    /\ (Scanned \/ lastCall.op = "merge_particles") =>
          ActiveMass(particles) = ActiveMass(before)

\* an update() that merged three bodies into one, in a chain of two merges
C6_Witness ==
    /\ Stepped
    /\ lastCall.merges = 2
    /\ Cardinality(ActiveIndices(before)) = 3
    /\ Cardinality(ActiveIndices(particles)) = 1

\* r is the integer nearest to the cube root of n
NearestCubeRoot(r, n) ==
    /\ (2 * r - 1) * (2 * r - 1) * (2 * r - 1) <= 8 * n
    /\ 8 * n < (2 * r + 1) * (2 * r + 1) * (2 * r + 1)

Cube(r) == r * r * r

\* C7: the survivor of a merge of bodies with radii r1 and r2 has the radius r'
\* with r'^3 = r1^3 + r2^3 (to within the rounding of r' to a unit), whatever
\* the masses are.
C7_VolumeConserved ==
    MergedPair =>
       NearestCubeRoot(particles[lastCall.a].radius,
                       Cube(before[lastCall.a].radius) + Cube(before[lastCall.b].radius))

\* a merge of two bodies of equal radius and unequal mass, the survivor larger
C7_Witness ==
    /\ MergedPair
    /\ before[lastCall.a].radius = before[lastCall.b].radius
    /\ before[lastCall.a].mass # before[lastCall.b].mass
    /\ particles[lastCall.a].radius > before[lastCall.a].radius

\* no two active bodies of ps overlap
NoActiveOverlap(ps) ==
    \A i, j \in ActiveIndices(ps) : i # j => ~overlaps(ps[i], ps[j])

\* C8: merge_particles with an inactive argument changes neither body; and
\* handle_collision changes no inactive body, and no body at all when the
\* only overlaps are those of active bodies with inactive ones.
C8_InactiveNeverMerged ==
    /\ (/\ lastCall.op = "merge_particles"
        /\ ~before[lastCall.a].active \/ ~before[lastCall.b].active)
       => particles = before
    /\ lastCall.op = "handle_collision" =>
          /\ Len(particles) = Len(before)
          /\ \A k \in 1..Len(before) : ~before[k].active => particles[k] = before[k]
          /\ NoActiveOverlap(before) => particles = before

\* merge_particles was called on an active body and an inactive one it overlaps
C8_Witness ==
    /\ lastCall.op = "merge_particles"
    /\ before[lastCall.a].active
    /\ ~before[lastCall.b].active
    /\ overlaps(before[lastCall.a], before[lastCall.b])
    /\ particles = before

----------------------------------------------------------------------------
(* Properties of the forces.                                               *)

Opposite(f, g) == f[1] = -g[1] /\ f[2] = -g[2]

pair_force(p1, p2) == force_pair(calc_force_beetween_particle(G, p1, p2))

\* the force between two bodies at distinct positions is antisymmetric
PairForceAntisymmetric ==
    \A i, j \in 1..Len(particles) :
       (particles[i].x # particles[j].x \/ particles[i].y # particles[j].y)
          => Opposite(pair_force(particles[i], particles[j]),
                      pair_force(particles[j], particles[i]))

\* C9: the force between two bodies at distinct positions is antisymmetric,
\* force(a, b) = -force(b, a) componentwise, and in every update() the forces
\* applied to the two members of an active pair are exact negatives of each
\* other.
C9_ForcesOpposite ==
    /\ PairForceAntisymmetric
    /\ (Stepped /\ Cardinality(ActiveIndices(before)) = 2) =>
          \A i, j \in ActiveIndices(before) :
             (i # j /\ (before[i].x # before[j].x \/ before[i].y # before[j].y))
                => Opposite(forceUsed[i], forceUsed[j])

\* the coordinate c of a body moving at v, one dt later
Moved(c, v) == c + RoundDiv(v * dt, DtScale)

\* the same, carried to the opposite side once the body of radius r has left
\* [0, size] entirely
Carried(c, v, r, size) ==
    IF Moved(c, v) + r < 0 THEN size + r
    ELSE IF Moved(c, v) - r > size THEN -r
    ELSE Moved(c, v)

\* the last call was an update() of an engine with one active body, dt > 0
SoloStepped ==
    /\ lastCall.op = "update"
    /\ dt > 0
    /\ Cardinality(ActiveIndices(before)) = 1

----------------------------------------------------------------------------
(* Properties of the trail.                                                *)

\* all of a sequence but its last element
Front(s) == SubSeq(s, 1, Len(s) - 1)

\* the trail new follows the trail old by one sample: cleared first when the
\* body was teleported, the oldest sample dropped when old was full
TrailFollows(new, old, cap, teleported) ==
    IF teleported THEN Len(new) = 1
    ELSE IF Len(old) < cap THEN Front(new) = old
    ELSE Len(new) = cap /\ Front(new) = Tail(old)

\* the single body at index k was carried to the opposite side in the last call
SoloTeleported(k) ==
    \/ particles[k].x # Moved(before[k].x, before[k].vx)
    \/ particles[k].y # Moved(before[k].y, before[k].vy)

\* C11: the trail of a body created with an empty trail never grows beyond
\* max_trail_length, however many update() calls are made, and when the cap
\* is reached it is the oldest sample that is dropped.
C11_TrailBoundedFIFO ==
    /\ \A k \in 1..Len(particles) :
          Len(particles[k].trail) <= particles[k].max_trail_length
    /\ (SoloStepped /\ ~raised) =>
          \A k \in ActiveIndices(before) :
             TrailFollows(particles[k].trail, before[k].trail,
                          before[k].max_trail_length, SoloTeleported(k))

\* an update() made after more than max_trail_length of them, on a full trail
\* of distinct samples, which dropped the oldest
C11_Witness ==
    /\ SoloStepped
    /\ ~raised
    /\ steps > particles[1].max_trail_length + 1
    /\ Len(before[1].trail) = before[1].max_trail_length
    /\ before[1].trail[1] # before[1].trail[2]
    /\ ~SoloTeleported(1)
    /\ Len(particles[1].trail) = particles[1].max_trail_length

----------------------------------------------------------------------------
(* Determinism.                                                            *)

\* the same bodies under other identities: the identities in reverse order
Relabelled(ps) == [k \in 1..Len(ps) |-> [ps[k] EXCEPT !.id = nextId - @]]

\* the bodies without their identities
Unlabelled(ps) == [k \in 1..Len(ps) |-> [ps[k] EXCEPT !.id = 0]]

\* the outcome done of an update() is the one the last call had, identities apart
SameOutcome(done) ==
    /\ done.raised = raised
    /\ done.forces = forceUsed
    /\ done.merges = lastCall.merges
    /\ Unlabelled(done.ps) = Unlabelled(particles)

\* C12: update() is deterministic: a second engine with the same G, dt and
\* screen and the same bodies in the same order, whose objects have other
\* identities, ends the same update() in the same state: same positions,
\* velocities, masses, radii, active flags and trails of every body.
C12_Deterministic ==
    lastCall.op = "update" => SameOutcome(update(G, dt, Relabelled(before)))

\* an update() with dt > 0 of three bodies that merged two pairs
C12_Witness ==
    /\ Stepped
    /\ dt > 0
    /\ Len(before) = 3
    /\ lastCall.merges = 2

----------------------------------------------------------------------------
(* What a step leaves alone.                                               *)

\* the elements of ps at the indices act, in that order
Picked(ps, act) == [n \in 1..Len(act) |-> ps[act[n]]]

\* the outcome done of an update() of the active bodies alone is what the last
\* call made of them
SameForActive(done) ==
    /\ done.raised = raised
    /\ ~raised => done.ps = Picked(particles, active_indices(before))

\* C13: update() leaves position, velocity, mass, radius, active flag and trail
\* of every inactive body unchanged, and what it makes of the active bodies is
\* what it would make of them were the inactive bodies not in the collection.
C13_InactiveTakeNoPart ==
    lastCall.op = "update" =>
       /\ \A k \in 1..Len(before) : ~before[k].active => particles[k] = before[k]
       /\ SameForActive(update(G, dt, Picked(before, active_indices(before))))

\* an update() with dt > 0 that moved an active body standing on an inactive one
C13_Witness ==
    /\ Stepped
    /\ dt > 0
    /\ \E k, j \in 1..Len(before) :
          /\ ~before[k].active
          /\ before[j].active
          /\ overlaps(before[k], before[j])
          /\ particles[j].active
          /\ particles[j].x # before[j].x

\* ps is old without its element at index k
Removed(ps, old, k) ==
    /\ Len(ps) = Len(old) - 1
    /\ \A m \in 1..(k - 1) : ps[m] = old[m]
    /\ \A m \in k..Len(ps) : ps[m] = old[m + 1]

\* k is the index of the first body of old with identity id
FirstAt(old, id, k) ==
    /\ old[k].id = id
    /\ \A m \in 1..(k - 1) : old[m].id # id

\* C14: remove_particle(b) removes exactly the first occurrence of b and
\* leaves the other bodies as they were, in their order; when b is not in the
\* collection it raises nothing and changes nothing.
C14_RemoveFirstOccurrence ==
    lastCall.op = "remove_particle" =>
       /\ ~raised
       /\ \A k \in 1..Len(before) :
             FirstAt(before, lastCall.a, k) => Removed(particles, before, k)
       /\ (\A k \in 1..Len(before) : before[k].id # lastCall.a) => particles = before

\* the middle one of three bodies was removed
C14_Witness ==
    /\ lastCall.op = "remove_particle"
    /\ Len(before) = 3
    /\ before[2].id = lastCall.a
    /\ Len(particles) = 2

\* remove_particle was called with a body that is not in the collection
C14_AbsentReached ==
    /\ lastCall.op = "remove_particle"
    /\ Len(before) > 0
    /\ \A k \in 1..Len(before) : before[k].id # lastCall.a

\* the identities of the bodies, in the order of the collection
Ids(ps) == [k \in 1..Len(ps) |-> ps[k].id]

\* C15: update() never adds, removes or reorders bodies, not even when it
\* merges (the absorbed body stays, inactive), and neither do handle_collision
\* and merge_particles; add_particle appends one body at the end.
C15_OrderKept ==
    /\ lastCall.op \in {"update", "handle_collision", "merge_particles"} =>
          Ids(particles) = Ids(before)
    /\ lastCall.op = "add_particle" =>
          /\ Len(particles) = Len(before) + 1
          /\ Front(Ids(particles)) = Ids(before)
          /\ particles[Len(particles)].id = lastCall.a

\* an update() of three bodies that absorbed one of them, which is still there
C15_Witness ==
    /\ Stepped
    /\ Len(before) = 3
    /\ lastCall.merges > 0
    /\ \E k \in 1..Len(before) : before[k].active /\ ~particles[k].active

----------------------------------------------------------------------------
(* A step with dt = 0.                                                     *)

\* the last call was an update() with dt = 0 that completed
StoodStill == Stepped /\ dt = 0

\* position and velocity of the body at index k are what they were before the
\* last call
SamePlaceAndSpeed(k) ==
    /\ particles[k].x = before[k].x /\ particles[k].y = before[k].y
    /\ particles[k].vx = before[k].vx /\ particles[k].vy = before[k].vy

Merged(k) == ~particles[k].active \/ particles[k].mass # before[k].mass

C16_PairLeftUnmerged ==
    /\ StoodStill
    /\ Len(before) = 3
    /\ before[1].x = 2 /\ before[1].y = 2 /\ before[1].active
    /\ before[2].x = 4 /\ before[2].y = 3 /\ before[2].active
    /\ before[3].x = 0 /\ before[3].y = 1 /\ before[3].active
    /\ overlaps(before[1], before[3])
    /\ particles[1].active /\ particles[3].active

----------------------------------------------------------------------------
(* Integration.                                                            *)

\* v + (f / mass) * dt for the dt of the engine
Accelerated(v, f, mass) == v + RoundDiv(RoundDiv(f, mass) * dt, FScale * DtScale)

\* C17: update() integrates by semi-implicit Euler: for every active body the
\* velocity becomes v' = v + (F / mass) * dt, F being the net force applied to
\* it, and the position is then advanced with the new velocity, x + v' * dt
\* (the boundary handling follows), never with the velocity v of before the
\* step.  Observed on the bodies that take part in no merge of the step.
C17_SemiImplicitEuler ==
    Stepped =>
       \A k \in ActiveIndices(before) :
          ~Merged(k) =>
             /\ particles[k].vx = Accelerated(before[k].vx, forceUsed[k][1], before[k].mass)
             /\ particles[k].vy = Accelerated(before[k].vy, forceUsed[k][2], before[k].mass)
             /\ particles[k].x = Carried(before[k].x, particles[k].vx,
                                         before[k].radius, ScreenWidth)
             /\ particles[k].y = Carried(before[k].y, particles[k].vy,
                                         before[k].radius, ScreenHeight)

\* an update() that accelerated a body and moved it, within the region, to
\* another place than its old velocity would have
C17_Witness ==
    /\ Stepped
    /\ dt > 0
    /\ \E k \in ActiveIndices(before) :
          /\ ~Merged(k)
          /\ particles[k].vx # before[k].vx
          /\ particles[k].x = Moved(before[k].x, particles[k].vx)
          /\ particles[k].x # Moved(before[k].x, before[k].vx)

----------------------------------------------------------------------------
(* The boundary.                                                           *)

\* a damped reflection took the coordinate c1, reached with velocity v1 by a
\* body of radius r, to c2 with velocity v2: clamped inside [0, size] and sent
\* back inward at 0.8 of its speed when the extent crosses an edge
Reflects(c1, v1, r, size, c2, v2) ==
    IF c1 - r < 0 THEN c2 = r /\ v2 = RoundDiv(8 * Abs(v1), 10)
    ELSE IF c1 + r > size THEN c2 = size - r /\ v2 = -RoundDiv(8 * Abs(v1), 10)
    ELSE c2 = c1 /\ v2 = v1

\* a wrap-around took the coordinate c1, reached with velocity v1 by a body of
\* radius r, to c2 with velocity v2: set just outside the opposite side of
\* [0, size] when the extent lies entirely beyond an edge, the velocity kept
Wraps(c1, v1, r, size, c2, v2) ==
    /\ v2 = v1
    /\ IF c1 + r < 0 THEN c2 = size + r
       ELSE IF c1 - r > size THEN c2 = -r
       ELSE c2 = c1

\* the velocity components of the body at index k after its acceleration
SpedX(k) == Accelerated(before[k].vx, forceUsed[k][1], before[k].mass)

SpedY(k) == Accelerated(before[k].vy, forceUsed[k][2], before[k].mass)

----------------------------------------------------------------------------
(* The trail sample.                                                       *)

\* the newest sample of a trail
Newest(trail) == trail[Len(trail)]

\* the offset, along one axis, from the centre of a body of radius r to the
\* point of its edge opposite to its motion, v being the velocity component on
\* that axis and speed the magnitude of the velocity
Behind(v, speed, r) == RoundDiv(r * RoundDiv(-v * UnitScale, speed), UnitScale)

\* the point of the edge of the body p opposite to its motion, or its centre
\* when it is at rest
EdgeBehind(p, speed) ==
    IF speed > 0 THEN <<p.x + Behind(p.vx, speed, p.radius),
                        p.y + Behind(p.vy, speed, p.radius)>>
    ELSE <<p.x, p.y>>

\* the body at index k left the region in the last update() and was set to the
\* opposite side
Teleported(k) ==
    \/ Moved(before[k].x, SpedX(k)) + before[k].radius < 0
    \/ Moved(before[k].x, SpedX(k)) - before[k].radius > ScreenWidth
    \/ Moved(before[k].y, SpedY(k)) + before[k].radius < 0
    \/ Moved(before[k].y, SpedY(k)) - before[k].radius > ScreenHeight

\* C19 as stated: in every step exactly one sample is appended to the trail of
\* every active body, after integration and boundary handling, and the sample
\* is the body's position (x, y) at that moment.
C19_SampleIsPosition ==
    Stepped =>
       \A k \in ActiveIndices(before) :
          ~Merged(k) =>
             /\ TrailFollows(particles[k].trail, before[k].trail,
                             before[k].max_trail_length, Teleported(k))
             /\ Newest(particles[k].trail) = <<particles[k].x, particles[k].y>>

\* C19: in every step exactly one sample is appended to the trail of every
\* active body, after integration and boundary handling, and the sample is the
\* point of the body's edge opposite to its velocity at that moment,
\* (x - radius * vx / speed, y - radius * vy / speed), or the position (x, y)
\* when the body is at rest.
C19_SampleIsEdgeBehind ==
    Stepped =>
       \A k \in ActiveIndices(before) :
          ~Merged(k) =>
             /\ TrailFollows(particles[k].trail, before[k].trail,
                             before[k].max_trail_length, Teleported(k))
             /\ Newest(particles[k].trail)
                   = EdgeBehind(particles[k],
                                RoundSqrt(particles[k].vx * particles[k].vx
                                          + particles[k].vy * particles[k].vy))

\* an update() that appended, to the trail of a moving body that stayed in the
\* region, a sample that is not the body's position
C19_Witness ==
    /\ Stepped
    /\ \E k \in ActiveIndices(before) :
          /\ ~Merged(k)
          /\ ~Teleported(k)
          /\ Len(particles[k].trail) = Len(before[k].trail) + 1
          /\ Newest(particles[k].trail) # <<particles[k].x, particles[k].y>>

\* an update() that appended the position of a body at rest to its trail
C19_AtRestReached ==
    /\ Stepped
    /\ \E k \in ActiveIndices(before) :
          /\ ~Merged(k)
          /\ particles[k].vx = 0
          /\ particles[k].vy = 0
          /\ Newest(particles[k].trail) = <<particles[k].x, particles[k].y>>

----------------------------------------------------------------------------
(* Attraction.                                                             *)

Sign(a) == IF a > 0 THEN 1 ELSE IF a < 0 THEN -1 ELSE 0

\* the catalogue's bodies as objects
KnownBodies == {Object(0, b.x, b.y, b.mass, b.radius, b.vx, b.vy) : b \in NewBodies}

\* the force on a from b under the constant g points from a to b, component
\* by component
Attracts(g, a, b) ==
    /\ ~calc_force_beetween_particle(g, a, b).raised
    /\ Sign(calc_force_beetween_particle(g, a, b).fx) = Sign(b.x - a.x)
    /\ Sign(calc_force_beetween_particle(g, a, b).fy) = Sign(b.y - a.y)

----------------------------------------------------------------------------
(* The controller: pause and resume.                                       *)

\* the last call of the controller was op
Called(op) == Len(earlier) > 0 /\ earlier[1].op = op

\* the last two calls of the controller were toggle_pause, the first of them
\* made while running
ToggledTwice ==
    /\ Len(earlier) = 2
    /\ earlier[1].op = "toggle_pause"
    /\ earlier[2].op = "toggle_pause"
    /\ ~earlier[2].from.is_paused

\* C21: toggle_pause is a round trip.  Called on a running controller whose
\* engine has dt = d it saves d, sets engine.dt to 0 and is_paused to true; a
\* second toggle_pause right after restores engine.dt = d and is_paused =
\* false; neither call changes engine.G or the body collection.
C21_TogglePauseRoundTrip ==
    /\ (Called("toggle_pause") /\ ~earlier[1].from.is_paused) =>
          /\ original_dt = earlier[1].from.dt
          /\ dt = 0
          /\ is_paused
    /\ ToggledTwice =>
          /\ dt = earlier[2].from.dt
          /\ ~is_paused
          /\ G = earlier[2].from.G
    /\ Called("toggle_pause") =>
          /\ G = earlier[1].from.G
          /\ particles = before
    /\ ~is_paused =>
          /\ toggle_pause(toggle_pause(params)).dt = dt
          /\ ~toggle_pause(toggle_pause(params)).is_paused
          /\ toggle_pause(toggle_pause(params)).G = G

\* two toggle_pause calls in a row on a controller that was running with a
\* dt other than the one it was constructed with, and holds a body
C21_Witness ==
    /\ ToggledTwice
    /\ earlier[2].from.dt > 0
    /\ earlier[2].from.dt # earlier[2].from.original_dt
    /\ dt = earlier[2].from.dt
    /\ Len(particles) > 0

----------------------------------------------------------------------------
(* safe_float_convert.                                                     *)

\* safe_float_convert has returned
Converted == lastCall.op = "safe_float_convert"

\* C22 as stated: safe_float_convert(text, default, min_val, max_val) with
\* min_val <= max_val always returns a value inside [min_val, max_val],
\* whatever the text (empty and unparsable text included) and the default.
C22_AlwaysInRange ==
    Converted => lastCall.a.min_val <= lastCall.b /\ lastCall.b <= lastCall.a.max_val

\* what does hold: the result is inside the range unless the text is not a
\* number, and then it is the default as given
C22_InRangeUnlessUnparsable ==
    Converted =>
       IF lastCall.a.text.kind = "junk"
       THEN lastCall.b = lastCall.a.default
       ELSE lastCall.a.min_val <= lastCall.b /\ lastCall.b <= lastCall.a.max_val

\* an unparsable text converted with a default outside the range
C22_DefaultOutsideReached ==
    /\ Converted
    /\ lastCall.a.text.kind = "junk"
    /\ lastCall.a.default < lastCall.a.min_val
    /\ lastCall.b = lastCall.a.default

----------------------------------------------------------------------------
(* The net force.                                                          *)

\* the indices of the bodies that act on the body at index t: the active
\* ones, t itself apart
Sources(ps, t) == {k \in 1..Len(ps) : k # t /\ ps[k].active}

RECURSIVE SumOf(_, _, _, _)
\* the sum, over the indices in S, of component c (1 or 2) of the pairwise
\* force on the body at index t
SumOf(ps, t, S, c) ==
    IF S = {} THEN 0
    ELSE LET k == CHOOSE k \in S : TRUE
         IN  pair_force(ps[t], ps[k])[c] + SumOf(ps, t, S \ {k}, c)

\* no body acting on the body at index t is at the same place as it
Defined(ps, t) ==
    \A k \in Sources(ps, t) : ps[k].x # ps[t].x \/ ps[k].y # ps[t].y

\* C23: calculate_total_force_for_particle(target) returns the vector sum of
\* the pairwise forces between target and every other active body of the
\* collection, nothing for target itself, nothing for an inactive body; it is
\* (0, 0) when the engine holds only the target.  The targets are the active
\* bodies, the ones update() asks the net force for.
C23_TotalForceIsSum ==
    \A t \in ActiveIndices(particles) :
       /\ Defined(particles, t) =>
             /\ ~calculate_total_force_for_particle(G, particles, particles[t]).raised
             /\ force_pair(calculate_total_force_for_particle(G, particles, particles[t]))
                   = <<SumOf(particles, t, Sources(particles, t), 1),
                       SumOf(particles, t, Sources(particles, t), 2)>>
       /\ Len(particles) = 1 =>
             force_pair(calculate_total_force_for_particle(G, particles, particles[t]))
                = <<0, 0>>

\* three active bodies, one of which is pulled by both others, along x and
\* along y
C23_Witness ==
    /\ Len(particles) = 3
    /\ \A k \in 1..3 : particles[k].active
    /\ \E t \in 1..3 :
          /\ Defined(particles, t)
          /\ \A k \in Sources(particles, t) :
                pair_force(particles[t], particles[k]) # <<0, 0>>
          /\ \A k \in Sources(particles, t) :
                force_pair(calculate_total_force_for_particle(G, particles, particles[t]))
                   # pair_force(particles[t], particles[k])

\* an inactive body that would pull on an active one and is left out of its
\* net force
C23_InactiveLeftOutReached ==
    \E t, k \in 1..Len(particles) :
       /\ particles[t].active
       /\ ~particles[k].active
       /\ particles[k].x # particles[t].x
       /\ Defined(particles, t)
       /\ Sources(particles, t) # {}
       /\ force_pair(calculate_total_force_for_particle(G, particles, particles[t]))
             = <<SumOf(particles, t, Sources(particles, t), 1),
                 SumOf(particles, t, Sources(particles, t), 2)>>

----------------------------------------------------------------------------
(* One collision scan.                                                     *)

\* the last call ran a collision scan to its end
ScanDone ==
    \/ lastCall.op = "handle_collision"
    \/ Stepped

\* the bodies the last call deactivated
Deactivated == {k \in ActiveIndices(before) : ~particles[k].active}

\* C24: within one collision scan a body deactivated by an earlier merge
\* takes part in no later merge: the scan calls merge_particles once for each
\* body it deactivates, so no body is absorbed twice and no pair is merged
\* twice, and no body that is inactive absorbs another: the bodies inactive
\* before the scan are as they were and every absorbed body keeps the mass
\* and radius it had, having absorbed nothing itself.
C24_DeactivatedTakeNoPart ==
    ScanDone =>
       /\ lastCall.merges = Cardinality(Deactivated)
       /\ Cardinality(ActiveIndices(particles))
             = Cardinality(ActiveIndices(before)) - lastCall.merges
       /\ \A k \in 1..Len(before) :
             ~before[k].active => particles[k] = before[k]
       /\ \A k \in Deactivated :
             /\ particles[k].mass = before[k].mass
             /\ particles[k].radius = before[k].radius

\* a handle_collision() in which a body overlapping a later one was absorbed
\* by an earlier one first, so that its own pair tests were skipped
C24_Witness ==
    /\ lastCall.op = "handle_collision"
    /\ lastCall.merges > 0
    /\ \E i, j, k \in ActiveIndices(before) :
          /\ i < j /\ j < k
          /\ overlaps(before[i], before[j])
          /\ overlaps(before[j], before[k])
          /\ ~particles[j].active
          /\ particles[i].active

----------------------------------------------------------------------------
(* The wrap-around, case by case.                                          *)

\* where integration put the body at index k in the last update()
ArrivedX(k) == before[k].x + RoundDiv(particles[k].vx * dt, DtScale)

ArrivedY(k) == before[k].y + RoundDiv(particles[k].vy * dt, DtScale)

\* the body at index k went through the last update() without being merged
Intact(k) ==
    /\ before[k].active
    /\ particles[k].active
    /\ particles[k].mass = before[k].mass

C25_PartlyOutsideReached ==
    /\ Stepped
    /\ \E k \in 1..Len(before) :
          /\ Intact(k)
          /\ ArrivedX(k) + before[k].radius > ScreenWidth
          /\ ArrivedX(k) - before[k].radius <= ScreenWidth
          /\ particles[k].x = ArrivedX(k)
          /\ Len(particles[k].trail) = Len(before[k].trail) + 1

----------------------------------------------------------------------------
(* The controller: the pause flag and the engine's dt.                     *)

\* C26 as stated: after any sequence of toggle_pause and
\* adjust_physics_parameters calls on a controller whose engine started with
\* dt > 0, a controller that reports running (is_paused false) has
\* engine.dt > 0; toggle_pause called while paused always resumes with a
\* strictly positive dt.
C26_RunningHasPositiveDt == ~is_paused => dt > 0

\* a toggle_pause made while paused, with dt = 0, that left the controller
\* running with dt = 0
C26_ResumedAtZeroReached ==
    /\ Called("toggle_pause")
    /\ earlier[1].from.is_paused
    /\ earlier[1].from.dt = 0
    /\ ~is_paused
    /\ dt = 0


\* C30: after any sequence of toggle_pause and adjust_physics_parameters
\* calls, whenever the controller's is_paused flag is true the engine's dt is
\* exactly 0.
C30_PausedHasZeroDt == is_paused => dt = 0

\* a pause entered by adjust_physics_parameters bringing a positive dt down
\* to zero, and then kept through an adjustment of G alone
C30_Witness ==
    /\ Len(earlier) = 2
    /\ earlier[1].op = "adjust_physics_parameters"
    /\ earlier[2].op = "adjust_physics_parameters"
    /\ ~earlier[2].from.is_paused
    /\ earlier[2].from.dt > 0
    /\ earlier[1].from.is_paused
    /\ earlier[1].from.G # G
    /\ is_paused
    /\ dt = 0

----------------------------------------------------------------------------
(* The controller: the engine's parameters stay valid.                     *)

\* C27: after any sequence of update_physics_parameters (whatever the boxes
\* hold), adjust_physics_parameters (whatever the deltas) and toggle_pause
\* calls, the engine's parameters are in their domain: G >= 0.1, hence
\* G > 0, and dt >= 0, the dt saved for the end of a pause included.
C27_ParametersStayValid ==
    /\ G >= GScale \div 10
    /\ G > 0
    /\ dt >= 0
    /\ original_dt >= 0

\* the boxes read, then an adjustment that brought G down to its floor of 0.1
\* and dt down to 0
C27_Witness ==
    /\ Len(earlier) = 2
    /\ earlier[2].op = "update_physics_parameters"
    /\ earlier[1].op = "adjust_physics_parameters"
    /\ earlier[1].from.G > G
    /\ G = GScale \div 10
    /\ earlier[1].from.dt > 0
    /\ dt = 0

\* the boxes read while they held a text that is no number and a negative
\* number, which left the default G and dt = 0
C27_BoxesReadReached ==
    /\ Called("update_physics_parameters")
    /\ g_text.kind = "junk"
    /\ dt_text.kind = "number" /\ dt_text.value < 0
    /\ G = 100 * GScale
    /\ dt = 0

----------------------------------------------------------------------------
(* Deactivation is permanent.                                              *)

\* the last call left every body at its index
IndicesKept == lastCall.op \in {"add_particle", "update", "handle_collision", "merge_particles"}

\* C28: deactivation is permanent: no add_particle, remove_particle,
\* update(), handle_collision() or merge_particles call sets a false active
\* flag back to true, and the number of active bodies never increases across
\* an update().
C28_DeactivationPermanent ==
    /\ IndicesKept =>
          /\ Len(particles) >= Len(before)
          /\ \A k \in 1..Len(before) : ~before[k].active => ~particles[k].active
    /\ lastCall.op = "remove_particle" =>
          \A j \in 1..Len(particles) :
             \/ particles[j] = before[j]
             \/ particles[j] = before[j + 1]
    /\ lastCall.op = "update" =>
          Cardinality(ActiveIndices(particles)) <= Cardinality(ActiveIndices(before))

\* an update() that merged two bodies next to a body absorbed in an earlier
\* call, which stayed inactive
C28_Witness ==
    /\ Stepped
    /\ lastCall.merges > 0
    /\ \E k \in 1..Len(before) : ~before[k].active /\ ~particles[k].active
    /\ Cardinality(ActiveIndices(particles)) < Cardinality(ActiveIndices(before))

\* merge_particles called on an inactive body, which stayed inactive
C28_MergeOnInactiveReached ==
    /\ lastCall.op = "merge_particles"
    /\ ~before[lastCall.a].active
    /\ before[lastCall.b].active
    /\ ~particles[lastCall.a].active

----------------------------------------------------------------------------
(* What a collision scan leaves.                                           *)

\* two distinct active bodies of ps whose squared centre distance is below
\* the square of the sum of their radii
StillOverlapping(ps) ==
    \E i, j \in ActiveIndices(ps) :
       /\ i < j
       /\ (ps[j].x - ps[i].x) * (ps[j].x - ps[i].x)
             + (ps[j].y - ps[i].y) * (ps[j].y - ps[i].y)
             < (ps[i].radius + ps[j].radius) * (ps[i].radius + ps[j].radius)

\* C29 as stated: when handle_collision returns, and so at the end of every
\* update(), no two active bodies of the collection overlap, also when a
\* merge earlier in the scan moved or enlarged a survivor.
C29_NoOverlapAfterScan ==
    ScanDone => ~StillOverlapping(particles)

\* what does hold: a scan that merged nothing leaves no overlap
C29_NoOverlapWhenNothingMerged ==
    (ScanDone /\ lastCall.merges = 0) => ~StillOverlapping(particles)

\* a handle_collision() whose survivor, moved and enlarged by a merge, ends
\* overlapping an active body it did not overlap before
C29_OverlapLeftReached ==
    /\ lastCall.op = "handle_collision"
    /\ lastCall.merges > 0
    /\ \E i, j \in ActiveIndices(particles) :
          /\ i # j
          /\ overlaps(particles[i], particles[j])
          /\ ~overlaps(before[i], before[j])

====
